---- MODULE Spec2Model ----
(***************************************************************************)
(* Blog post store (api/posts.js serverless handler and the Express        *)
(* server) and the browser client (blog.js): admin-key gating, upsert and  *)
(* delete over the posts table, the client's session-held admin key, and   *)
(* excerpt generation.                                                     *)
(***************************************************************************)
EXTENDS Integers, Sequences, FiniteSets, TLC

VARIABLES
    posts,        \* the rows of table posts (a set of row records)
    clock,        \* the database clock read by NOW()
    tableExists,  \* table posts has been created in the database
    pool,         \* api/posts.js: module variable pool (Null or a Pool)
    tableReady,   \* api/posts.js: module variable tableReady
    adminSecret,  \* process.env.ADMIN_SECRET
    databaseUrl,  \* process.env.DATABASE_URL is set
    express,      \* the Express server process: starting, listening, exited
                  \* (initDB failed) or crashed (uncaught error)
    last,         \* the exchange in progress: the request handled and its response
    sessionKey,   \* blog.js: sessionStorage item admin_key
    call,         \* blog.js: the saveBlog call and the deleteBlog call, each with
                  \* its position and what it has done so far
    html,         \* generateExcerpt: its argument
    excerptOut,   \* generateExcerpt: its result
    excerptDone,  \* generateExcerpt has returned
    inflight,     \* api/posts.js: the invocations of handler that overlap in one
                  \* process, each with its request, its position and its response
    creates,      \* the CREATE TABLE IF NOT EXISTS queries issued so far
    currentTags,  \* blog.js initBlogEditor: currentTags
    editId        \* blog.js initBlogEditor: editId, Null for a new post

storeVars == <<posts, clock, tableExists, pool, tableReady, adminSecret, databaseUrl,
               express, last>>
clientVars == <<sessionKey, call>>
excerptVars == <<html, excerptOut, excerptDone>>
procVars == <<inflight, creates>>
editorVars == <<currentTags, editId>>
vars == <<posts, clock, tableExists, pool, tableReady, adminSecret, databaseUrl,
          express, last,
          sessionKey, call, html, excerptOut, excerptDone,
          inflight, creates, currentTags, editId>>

(***************************************************************************)
(* Bounds of the model.                                                    *)
(***************************************************************************)
\* NOW() never exceeds MaxClock: at most MaxClock upserts run in a behaviour.
MaxClock == 2

\* At most MaxCreates CREATE TABLE IF NOT EXISTS queries are issued by the
\* overlapping invocations of a behaviour.
MaxCreates == 2

\* Markup inputs of generateExcerpt carry runs of whitespace of at most
\* MaxPad characters before, inside and after their text.
MaxPad == 2

(***************************************************************************)
(* JavaScript values.                                                      *)
(***************************************************************************)
\* JavaScript undefined: a missing header, body field or URL id.
Undefined == "<undefined>"

\* JavaScript null: no pool, no id, no item, a cancelled prompt.
Null == "<null>"

\* A JavaScript string is falsy exactly when it is undefined or empty.
Truthy(v) == v # Undefined /\ v # Null /\ v # ""

Secret == "s3cret"
Ids == {"p1", "p2"}

\* Values of the X-Admin-Key header as the server reads it.
HeaderKeys == {Undefined, "", Secret, "wrong"}

\* Bodies of a POST: each of id, title, content is missing, empty or given;
\* excerpt is missing or given; tags is missing (has_tags false) or an array.
Bodies ==
    [id : {Undefined, ""} \cup Ids,
     title : {Undefined, "", "T"},
     content : {Undefined, "", "c1", "c2"},
     excerpt : {Undefined, "e1"},
     has_tags : BOOLEAN,
     tags : {<<>>, <<"x">>}]

Required == {"id", "title", "content"}

\* The required fields a body lacks (missing or empty).
Lacking(b) == {f \in Required : b[f] = Undefined \/ b[f] = ""}

\* The bodies sent: complete ones (with excerpt and tags, or with neither),
\* and ones lacking one or all of the required fields.
PostBodies ==
    {b \in Bodies :
        /\ b.has_tags = (b.tags # <<>>)
        /\ b.has_tags = (b.excerpt # Undefined)
        /\ \/ Lacking(b) = {}
           \/ /\ Cardinality(Lacking(b)) = 1
              /\ b.excerpt = Undefined /\ ~b.has_tags
              /\ b.id \in {Undefined, "", "p1"} /\ b.content \in {Undefined, "", "c1"}
           \/ /\ Lacking(b) = Required
              /\ b.id = Undefined /\ b.title = Undefined /\ b.content = Undefined
              /\ b.excerpt = Undefined /\ ~b.has_tags}

NoBody == [id |-> Undefined, title |-> Undefined, content |-> Undefined,
           excerpt |-> Undefined, has_tags |-> FALSE, tags |-> <<>>]

\* The requests of the HTTP surface: list, get, upsert, delete, preflight.
\* The health probe of api/posts.js, which reads neither the table nor the
\* key, is not among them.
Requests ==
    [method : {"GET"}, key : {Undefined}, id : {Undefined} \cup Ids, body : {NoBody}]
    \cup [method : {"POST"}, key : HeaderKeys, id : {Undefined}, body : PostBodies]
    \cup [method : {"DELETE"}, key : HeaderKeys, id : {Undefined} \cup Ids, body : {NoBody}]
    \cup [method : {"OPTIONS"}, key : {Undefined}, id : {Undefined}, body : {NoBody}]

(***************************************************************************)
(* The posts table and its four statements.                                *)
(***************************************************************************)
RowIds(P) == {r.id : r \in P}

RowOf(P, id) == CHOOSE r \in P : r.id = id

\* excerpt || '' and tags || [] of the parameter list.
ExcerptParam(b) == IF Truthy(b.excerpt) THEN b.excerpt ELSE ""
TagsParam(b) == IF b.has_tags THEN b.tags ELSE <<>>

\* INSERT ... VALUES ($1..$5, NOW(), NOW())
InsertRow(b, now) ==
    [id |-> b.id, title |-> b.title, content |-> b.content,
     excerpt |-> ExcerptParam(b), tags |-> TagsParam(b),
     created_at |-> now, updated_at |-> now]

\* The conflict clause without tags = EXCLUDED.tags.
ConflictUpdate_KeepsTags(r, b, now) ==
    [r EXCEPT !.title = b.title, !.content = b.content,
              !.excerpt = ExcerptParam(b), !.updated_at = now]

\* The conflict clause also resetting created_at.
ConflictUpdate_ResetsCreated(r, b, now) ==
    [r EXCEPT !.title = b.title, !.content = b.content,
              !.excerpt = ExcerptParam(b), !.tags = TagsParam(b),
              !.created_at = now, !.updated_at = now]

\* ON CONFLICT (id) DO UPDATE SET title, content, excerpt, tags, updated_at
ConflictUpdate(r, b, now) ==
    [r EXCEPT !.title = b.title, !.content = b.content,
              !.excerpt = ExcerptParam(b), !.tags = TagsParam(b),
              !.updated_at = now]

\* INSERT ... ON CONFLICT (id) DO UPDATE ...: the table after the statement.
UpsertQuery(P, b, now) ==
    IF b.id \in RowIds(P)
    THEN {IF r.id = b.id THEN ConflictUpdate(r, b, now) ELSE r : r \in P}
    ELSE P \cup {InsertRow(b, now)}

\* The delete statement without its WHERE clause.
DeleteQuery_NoWhere(P, id) == {}

\* DELETE FROM posts WHERE id = $1: the table after the statement.
DeleteQuery(P, id) == {r \in P : r.id # id}

\* The list query selecting every column.
Summary_SelectAll(r) == r

\* SELECT id, title, excerpt, tags, created_at, updated_at
Summary(r) ==
    [id |-> r.id, title |-> r.title, excerpt |-> r.excerpt, tags |-> r.tags,
     created_at |-> r.created_at, updated_at |-> r.updated_at]

\* ORDER BY created_at DESC
RECURSIVE OrderByCreatedDesc(_)
OrderByCreatedDesc(P) ==
    IF P = {} THEN <<>>
    ELSE LET r == CHOOSE x \in P : \A y \in P : y.created_at <= x.created_at
         IN <<r>> \o OrderByCreatedDesc(P \ {r})

ListQuery(P) == LET rows == OrderByCreatedDesc(P)
                IN [i \in 1..Len(rows) |-> Summary(rows[i])]

(***************************************************************************)
(* api/posts.js: the serverless handler.                                   *)
(***************************************************************************)
\* isAdmin without its test that a key was sent.
isAdmin_KeyEquals(req) == req.key = adminSecret

\* isAdmin accepting any non-empty key.
isAdmin_AnyKey(req) == Truthy(req.key)

\* isAdmin: key && key === process.env.ADMIN_SECRET
isAdmin(req) == Truthy(req.key) /\ req.key = adminSecret

\* extractId: the id of the URL path or rewrite parameter, else null.
extractId(req) == IF Truthy(req.id) THEN req.id ELSE Null

\* The field check forgetting content.
MissingField_NoContent(b) == ~Truthy(b.id) \/ ~Truthy(b.title)

\* !id || !title || !content
MissingField(b) == ~Truthy(b.id) \/ ~Truthy(b.title) \/ ~Truthy(b.content)

\* getPool on module variable p: the pool returned, or a throw when
\* DATABASE_URL is not set and no pool is held.
getPool(p) ==
    IF ~Truthy(p)
    THEN IF ~databaseUrl THEN [threw |-> TRUE, pool |-> p]
         ELSE [threw |-> FALSE, pool |-> "Pool"]
    ELSE [threw |-> FALSE, pool |-> p]

\* ensureTable: tf says that the CREATE TABLE IF NOT EXISTS query fails.
ensureTable(tf) ==
    IF tableReady
    THEN [threw |-> FALSE, pool |-> pool, tableReady |-> TRUE, tableExists |-> tableExists]
    ELSE LET g == getPool(pool)
         IN IF g.threw \/ tf
            THEN [threw |-> TRUE, pool |-> g.pool, tableReady |-> FALSE,
                  tableExists |-> tableExists]
            ELSE [threw |-> FALSE, pool |-> g.pool, tableReady |-> TRUE,
                  tableExists |-> TRUE]

\* A response that leaves the table as it is.
Reply(status, payload) ==
    [status |-> status, payload |-> payload, posts |-> posts, clock |-> clock,
     fault |-> FALSE]

\* The catch clause of a route: a storage fault becomes a 500.
Caught(msg) ==
    [status |-> 500, payload |-> [error |-> msg], posts |-> posts, clock |-> clock,
     fault |-> TRUE]

\* The response to a successful upsert: RETURNING * of the row written.
\* NOW() has microsecond resolution and a statement lasts longer, so the
\* statement after this one reads a later NOW().
UpsertReply(b) ==
    LET P == UpsertQuery(posts, b, clock)
    IN [status |-> 200, payload |-> RowOf(P, b.id), posts |-> P, clock |-> clock + 1,
        fault |-> FALSE]

\* The delete route without its check of the rows returned.
DeleteReply_NoRowCheck(id) ==
    [status |-> 200, payload |-> [deleted |-> TRUE, id |-> id],
     posts |-> DeleteQuery(posts, id), clock |-> clock, fault |-> FALSE]

\* The response to a delete whose query ran: 404 when RETURNING id is empty.
DeleteReply(id) ==
    IF id \notin RowIds(posts)
    THEN Reply(404, [error |-> "Post not found"])
    ELSE [status |-> 200, payload |-> [deleted |-> TRUE, id |-> id],
          posts |-> DeleteQuery(posts, id), clock |-> clock, fault |-> FALSE]

\* The response to a get whose query ran.
GetReply(id) ==
    IF id \notin RowIds(posts)
    THEN Reply(404, [error |-> "Post not found"])
    ELSE Reply(200, RowOf(posts, id))

ListReply == Reply(200, [rows |-> ListQuery(posts)])

\* The routes of the handler inside its try block, after ensureTable and
\* getPool returned; qf says that the route's query fails.
HandlerRoutes(req, qf) ==
    LET postId == extractId(req)
    IN IF req.method = "GET" /\ ~Truthy(postId)
       THEN IF qf THEN Caught("err.message") ELSE ListReply
       ELSE IF req.method = "GET"
       THEN IF qf THEN Caught("err.message") ELSE GetReply(postId)
       ELSE IF req.method = "POST"
       THEN IF ~isAdmin(req)
            THEN Reply(403, [error |-> "Forbidden"])
            ELSE IF MissingField(req.body)
            THEN Reply(400, [error |-> "id, title, and content are required"])
            ELSE IF qf THEN Caught("err.message") ELSE UpsertReply(req.body)
       ELSE IF req.method = "DELETE" /\ Truthy(postId)
       THEN IF ~isAdmin(req)
            THEN Reply(403, [error |-> "Forbidden"])
            ELSE IF qf THEN Caught("err.message") ELSE DeleteReply(postId)
       ELSE Reply(405, [error |-> "Method not allowed"])

\* The whole handler: preflight, ensureTable, getPool, the routes, the catch.
HandlerOutcome(req, tf, qf) ==
    IF req.method = "OPTIONS"
    THEN [r |-> Reply(200, [end |-> TRUE]), pool |-> pool, tableReady |-> tableReady,
          tableExists |-> tableExists]
    ELSE LET e == ensureTable(tf)
             g == getPool(e.pool)
         IN IF e.threw
            THEN [r |-> Caught("err.message"), pool |-> e.pool,
                  tableReady |-> e.tableReady, tableExists |-> e.tableExists]
            ELSE IF g.threw
            THEN [r |-> Caught("err.message"), pool |-> g.pool,
                  tableReady |-> e.tableReady, tableExists |-> e.tableExists]
            ELSE [r |-> HandlerRoutes(req, qf), pool |-> g.pool,
                  tableReady |-> e.tableReady, tableExists |-> e.tableExists]

\* What a step records in last.
Served(server, req, r) ==
    [server |-> server, req |-> req, status |-> r.status, payload |-> r.payload,
     fault |-> r.fault]

\* No exchange is in progress.
NoRequest == [server |-> "none",
              req |-> [method |-> "none", key |-> Undefined, id |-> Undefined,
                       body |-> NoBody],
              status |-> 0, payload |-> [none |-> TRUE], fault |-> FALSE]

Idle == last.server = "none"

\* One invocation of the serverless function, run when no other exchange is
\* in progress (requests are handled one at a time here).
Handler(req, tf, qf) ==
    LET o == HandlerOutcome(req, tf, qf)
    IN /\ Idle
       /\ tf => ~tableReady
       /\ o.r.clock <= MaxClock
       /\ posts' = o.r.posts
       /\ clock' = o.r.clock
       /\ pool' = o.pool
       /\ tableReady' = o.tableReady
       /\ tableExists' = o.tableExists
       /\ last' = Served("serverless", req, o.r)
       /\ UNCHANGED <<adminSecret, databaseUrl, express>>

\* pool.on('error'): an idle connection of the held pool fails.
PoolError ==
    /\ Idle
    /\ pool = "Pool"
    /\ pool' = Null
    /\ UNCHANGED <<posts, clock, tableExists, tableReady, adminSecret, databaseUrl, express,
                   last>>

(***************************************************************************)
(* The Express server.                                                     *)
(***************************************************************************)
\* requireAdmin letting a request without the header through.
requireAdmin_HeaderOptional(req) ==
    IF ~Truthy(adminSecret) THEN 500
    ELSE IF Truthy(req.key) /\ req.key # adminSecret THEN 403
    ELSE 0

\* requireAdmin: 0 stands for next().
requireAdmin(req) ==
    IF ~Truthy(adminSecret) THEN 500
    ELSE IF req.key # adminSecret THEN 403
    ELSE 0

\* initDB, then listen: f says that the CREATE TABLE query fails, which
\* ends the process.
ExpressInitDB(f) ==
    /\ Idle
    /\ express = "starting"
    /\ IF f THEN express' = "exited" /\ UNCHANGED tableExists
            ELSE express' = "listening" /\ tableExists' = TRUE
    /\ UNCHANGED <<posts, clock, pool, tableReady, adminSecret, databaseUrl, last>>

\* An idle connection of the Express server's pool fails. The pool has no
\* 'error' listener (api/posts.js registers one, "without this handler, a
\* dropped idle connection emits an unhandled 'error' event that crashes the
\* ... process entirely"), so the event is thrown and ends the process.
ExpressPoolError ==
    /\ Idle
    /\ express = "listening"
    /\ express' = "crashed"
    /\ UNCHANGED <<posts, clock, tableExists, pool, tableReady, adminSecret, databaseUrl,
                   last>>

\* The routes app.get, app.post, app.delete register.
ExpressRouted(req) ==
    \/ req.method = "GET"
    \/ req.method = "POST" /\ req.id = Undefined
    \/ req.method = "DELETE" /\ Truthy(req.id)

\* The response of the route matching req; qf says that its query fails.
ExpressOutcome(req, qf) ==
    IF req.method = "GET" /\ ~Truthy(req.id)
    THEN IF qf THEN Caught("Failed to fetch posts") ELSE ListReply
    ELSE IF req.method = "GET"
    THEN IF qf THEN Caught("Failed to fetch post") ELSE GetReply(req.id)
    ELSE IF requireAdmin(req) = 500
    THEN Reply(500, [error |-> "ADMIN_SECRET not configured on server"])
    ELSE IF requireAdmin(req) = 403
    THEN Reply(403, [error |-> "Forbidden"])
    ELSE IF req.method = "POST"
    THEN IF MissingField(req.body)
         THEN Reply(400, [error |-> "id, title, and content are required"])
         ELSE IF qf THEN Caught("Failed to save post") ELSE UpsertReply(req.body)
    ELSE IF qf THEN Caught("Failed to delete post") ELSE DeleteReply(req.id)

\* One request served by the Express server.
ExpressRoute(req, qf) ==
    LET r == ExpressOutcome(req, qf)
    IN /\ Idle
       /\ express = "listening"
       /\ ExpressRouted(req)
       /\ r.clock <= MaxClock
       /\ posts' = r.posts
       /\ clock' = r.clock
       /\ last' = Served("express", req, r)
       /\ UNCHANGED <<tableExists, pool, tableReady, adminSecret, databaseUrl, express>>

(***************************************************************************)
(* blog.js: the admin key of the session and saveBlog / deleteBlog.        *)
(***************************************************************************)
Ops == {"save", "delete"}

\* What prompt() returns: null on Cancel, else the text typed.
Entries == {Null, "", Secret, "wrong"}

\* The posts handed to saveBlog: complete ones, and one without a title.
ClientPosts ==
    {b \in PostBodies :
        /\ b.id \in Ids /\ b.content = "c1" /\ b.title \in {"T", ""}
        /\ b.title = "" => b.id = "p1"
        /\ b.title = "T" => b.has_tags}

NoReq == NoRequest.req

\* A call that has not been made.
NoCall == [stage |-> "idle", req |-> NoReq, prompted |-> FALSE, entered |-> Null,
           status |-> 0, result |-> FALSE, toast |-> ""]

\* getAdminKey: sessionStorage.getItem('admin_key') || null
getAdminKey == IF Truthy(sessionKey) THEN sessionKey ELSE Null

\* promptAdminKey: the key returned and the item afterwards.
promptAdminKey(entry) ==
    [key |-> entry, session |-> IF Truthy(entry) THEN entry ELSE sessionKey]

\* ensureAdminKey: the held key, else the prompted one.
ensureAdminKey(entry) ==
    IF Truthy(getAdminKey)
    THEN [key |-> getAdminKey, session |-> sessionKey, prompted |-> FALSE,
          entered |-> Null]
    ELSE [key |-> promptAdminKey(entry).key, session |-> promptAdminKey(entry).session,
          prompted |-> TRUE, entered |-> entry]

\* The fetch of saveBlog (arg a post) and of deleteBlog (arg an id).
FetchRequest(op, arg, key) ==
    IF op = "save"
    THEN [method |-> "POST", key |-> key, id |-> Undefined, body |-> arg]
    ELSE [method |-> "DELETE", key |-> key, id |-> arg, body |-> NoBody]

Warning(op, what) ==
    IF what = "nokey"
    THEN (IF op = "save" THEN "Admin key required to save"
                         ELSE "Admin key required to delete")
    ELSE IF what = "forbidden" THEN "Invalid admin key"
    ELSE (IF op = "save" THEN "Failed to save post" ELSE "Failed to delete post")

\* The key test passing an empty string.
NoKey_NullOnly(key) == key = Null

\* if (!key)
NoKey(key) == ~Truthy(key)

\* saveBlog / deleteBlog up to the fetch: entry is what the user answers if
\* prompted.
Begin(op, arg, entry) ==
    LET e == ensureAdminKey(entry)
    IN /\ call[op].stage \in {"idle", "done"}
       /\ Truthy(getAdminKey) => entry = Null
       /\ sessionKey' = e.session
       /\ call' = [call EXCEPT ![op] =
                     IF NoKey(e.key)
                     THEN [stage |-> "done", req |-> NoReq, prompted |-> e.prompted,
                           entered |-> e.entered, status |-> 0, result |-> FALSE,
                           toast |-> Warning(op, "nokey")]
                     ELSE [stage |-> "fetching", req |-> FetchRequest(op, arg, e.key),
                           prompted |-> e.prompted, entered |-> e.entered, status |-> 0,
                           result |-> FALSE, toast |-> ""]]
       /\ UNCHANGED storeVars

\* The store handles the request of the call.
Answered(op) ==
    /\ call[op].stage = "fetching"
    /\ call' = [call EXCEPT ![op].stage = "answered", ![op].status = last'.status]
    /\ UNCHANGED sessionKey

\* fetch rejects (the request did not reach the store): the catch clause.
FetchFails(op) ==
    /\ call[op].stage = "fetching"
    /\ call' = [call EXCEPT ![op].stage = "done", ![op].req = NoReq,
                            ![op].result = FALSE,
                            ![op].toast = Warning(op, "failed")]
    /\ UNCHANGED <<sessionKey, storeVars>>

\* res.ok
Ok(status) == status >= 200 /\ status <= 299

\* The key item after a response without removeItem on 403.
KeyAfter_Keeps(status) == sessionKey

\* The key item after a response: removed on 403.
KeyAfter(status) == IF status = 403 THEN Null ELSE sessionKey

\* saveBlog / deleteBlog after the fetch resolved.
End(op) ==
    /\ call[op].stage = "answered"
    /\ sessionKey' = KeyAfter(call[op].status)
    /\ call' = [call EXCEPT ![op].stage = "done", ![op].req = NoReq,
                            ![op].result = (call[op].status # 403 /\ Ok(call[op].status)),
                            ![op].toast = IF call[op].status = 403
                                          THEN Warning(op, "forbidden")
                                          ELSE IF ~Ok(call[op].status)
                                          THEN Warning(op, "failed") ELSE ""]
    /\ last' = NoRequest
    /\ UNCHANGED <<posts, clock, tableExists, pool, tableReady, adminSecret, databaseUrl,
                   express>>

\* The requester receives the response: the exchange is over.
Deliver ==
    /\ ~Idle
    /\ last' = NoRequest
    /\ UNCHANGED <<posts, clock, tableExists, pool, tableReady, adminSecret, databaseUrl,
                   express>>

(***************************************************************************)
(* The store on its own, serving any request of the HTTP surface.          *)
(***************************************************************************)
StoreInit ==
    /\ posts = {}
    /\ clock = 0
    /\ tableExists = FALSE
    /\ pool = Undefined
    /\ tableReady = FALSE
    /\ adminSecret = Secret
    /\ databaseUrl = TRUE
    /\ express = "starting"
    /\ last = NoRequest

ClientIdle ==
    /\ sessionKey = Null
    /\ call = [op \in Ops |-> NoCall]

ExcerptIdle ==
    /\ html = <<>>
    /\ excerptOut = <<>>
    /\ excerptDone = FALSE

\* The two invocations of handler that may overlap.
Slots == {"a", "b"}

\* A slot in which no invocation has run yet.
NoFlight == [pc |-> "idle", req |-> NoRequest.req, status |-> 0,
             payload |-> [none |-> TRUE], with |-> {}]

ProcIdle ==
    /\ inflight = [s \in Slots |-> NoFlight]
    /\ creates = 0

EditorIdle ==
    /\ currentTags = <<>>
    /\ editId = Null

Init == StoreInit /\ ClientIdle /\ ExcerptIdle /\ ProcIdle /\ EditorIdle

Next ==
    \/ \E req \in Requests, tf \in BOOLEAN, qf \in BOOLEAN :
           Handler(req, tf, qf) /\ UNCHANGED <<clientVars, excerptVars, procVars, editorVars>>
    \/ Deliver /\ UNCHANGED <<clientVars, excerptVars, procVars, editorVars>>
    \/ PoolError /\ UNCHANGED <<clientVars, excerptVars, procVars, editorVars>>
    \/ \E f \in BOOLEAN : ExpressInitDB(f) /\ UNCHANGED <<clientVars, excerptVars, procVars, editorVars>>
    \/ \E req \in Requests, qf \in BOOLEAN :
           ExpressRoute(req, qf) /\ UNCHANGED <<clientVars, excerptVars, procVars, editorVars>>

Spec == Init /\ [][Next]_vars

(***************************************************************************)
(* The store with the faults of idle pooled connections on both servers.   *)
(***************************************************************************)
FaultNext ==
    \/ Next
    \/ ExpressPoolError /\ UNCHANGED <<clientVars, excerptVars, procVars, editorVars>>

SpecFault == Init /\ [][FaultNext]_vars

(***************************************************************************)
(* The store run without ADMIN_SECRET (unset or empty), over a table that  *)
(* is empty or holds a row written while a secret was configured.          *)
(***************************************************************************)
SeedRow ==
    InsertRow([id |-> "p1", title |-> "T", content |-> "c1", excerpt |-> "e1",
               has_tags |-> TRUE, tags |-> <<"x">>], 0)

NoSecretInit ==
    /\ posts \in {{}, {SeedRow}}
    /\ clock = IF posts = {} THEN 0 ELSE 1
    /\ tableExists = (posts # {})
    /\ pool = Undefined
    /\ tableReady = FALSE
    /\ adminSecret \in {Undefined, ""}
    /\ databaseUrl = TRUE
    /\ express = "starting"
    /\ last = NoRequest
    /\ ClientIdle /\ ExcerptIdle /\ ProcIdle /\ EditorIdle

SpecNoSecret == NoSecretInit /\ [][Next]_vars

(***************************************************************************)
(* The serverless process serving invocations of handler that overlap:     *)
(* an invocation gives way to the others at each await of a query, and a   *)
(* query runs as one statement of the database.                            *)
(***************************************************************************)
\* Two upserts of the same id that differ in every field they write.
RaceBodies ==
    {[id |-> "p1", title |-> "T", content |-> "c1", excerpt |-> "e1",
      has_tags |-> TRUE, tags |-> <<"x">>],
     [id |-> "p1", title |-> "T2", content |-> "c2", excerpt |-> Undefined,
      has_tags |-> FALSE, tags |-> <<>>]}

\* The requests of the overlapping invocations: authorized upserts of p1,
\* its delete, its get, and the list.
ProcRequests ==
    [method : {"POST"}, key : {Secret}, id : {Undefined}, body : RaceBodies]
    \cup [method : {"DELETE"}, key : {Secret}, id : {"p1"}, body : {NoBody}]
    \cup [method : {"GET"}, key : {Undefined}, id : {Undefined, "p1"}, body : {NoBody}]

\* ensureTable with tableReady set before its query is awaited.
EnsureBegin_ReadyFirst ==
    IF tableReady
    THEN [await |-> FALSE, threw |-> FALSE, pool |-> pool, tableReady |-> TRUE]
    ELSE LET g == getPool(pool)
         IN [await |-> ~g.threw, threw |-> g.threw, pool |-> g.pool,
             tableReady |-> ~g.threw]

\* ensureTable up to its await: it returns at once when tableReady is set,
\* else it calls getPool and issues the CREATE TABLE query, leaving
\* tableReady as it is until the query has succeeded.
EnsureBegin ==
    IF tableReady
    THEN [await |-> FALSE, threw |-> FALSE, pool |-> pool, tableReady |-> TRUE]
    ELSE LET g == getPool(pool)
         IN [await |-> ~g.threw, threw |-> g.threw, pool |-> g.pool,
             tableReady |-> FALSE]

\* The handler from the return of ensureTable to its next await or to its
\* response: getPool on module variable p, then the route up to its query.
Proceed(req, p) ==
    LET g == getPool(p)
    IN IF g.threw
       THEN [pc |-> "done", status |-> 500, payload |-> Caught("err.message").payload,
             pool |-> g.pool]
       ELSE IF HandlerRoutes(req, TRUE).fault
       THEN [pc |-> "query", status |-> 0, payload |-> [none |-> TRUE], pool |-> g.pool]
       ELSE [pc |-> "done", status |-> HandlerRoutes(req, FALSE).status,
             payload |-> HandlerRoutes(req, FALSE).payload, pool |-> g.pool]

\* The invocations in flight when one starts in slot s. Field with of a slot
\* names the slots whose present invocation overlapped with its own.
Others(s) == {t \in Slots \ {s} : inflight[t].pc \in {"create", "query"}}

\* An invocation of handler starts in slot s and runs to its first await.
Receive(s, req) ==
    LET b == EnsureBegin
        o == IF b.threw
             THEN [pc |-> "done", status |-> 500,
                   payload |-> Caught("err.message").payload, pool |-> b.pool]
             ELSE IF b.await
             THEN [pc |-> "create", status |-> 0, payload |-> [none |-> TRUE],
                   pool |-> b.pool]
             ELSE Proceed(req, b.pool)
    IN /\ inflight[s].pc \in {"idle", "done"}
       /\ b.await => creates < MaxCreates
       /\ creates' = IF b.await THEN creates + 1 ELSE creates
       /\ pool' = o.pool
       /\ tableReady' = b.tableReady
       /\ inflight' = [t \in Slots |->
              IF t = s
              THEN [pc |-> o.pc, req |-> req, status |-> o.status,
                    payload |-> o.payload, with |-> Others(s)]
              ELSE [inflight[t] EXCEPT !.with = @ \ {s}]]
       /\ UNCHANGED <<posts, clock, tableExists, adminSecret, databaseUrl, express, last>>

\* The CREATE TABLE query awaited in slot s settles: tf says that it failed.
\* On success tableReady is set and the handler runs on to its next await.
CreateDone(s, tf) ==
    LET o == IF tf
             THEN [pc |-> "done", status |-> 500,
                   payload |-> Caught("err.message").payload, pool |-> pool]
             ELSE Proceed(inflight[s].req, pool)
    IN /\ inflight[s].pc = "create"
       /\ tableExists' = (tableExists \/ ~tf)
       /\ tableReady' = (tableReady \/ ~tf)
       /\ pool' = o.pool
       /\ inflight' = [inflight EXCEPT ![s].pc = o.pc, ![s].status = o.status,
                                       ![s].payload = o.payload]
       /\ UNCHANGED <<posts, clock, creates, adminSecret, databaseUrl, express, last>>

\* The route's query awaited in slot s settles and the response is sent: the
\* statement runs on the table as it is now, and fails when qf says so or
\* when the table does not exist.
QueryDone(s, qf) ==
    LET r == HandlerRoutes(inflight[s].req, qf \/ ~tableExists)
    IN /\ inflight[s].pc = "query"
       /\ r.clock <= MaxClock
       /\ posts' = r.posts
       /\ clock' = r.clock
       /\ inflight' = [inflight EXCEPT ![s].pc = "done", ![s].status = r.status,
                                       ![s].payload = r.payload]
       /\ UNCHANGED <<tableExists, pool, tableReady, creates, adminSecret, databaseUrl,
                      express, last>>

ProcNext ==
    \/ \E s \in Slots, req \in ProcRequests :
           Receive(s, req) /\ UNCHANGED <<clientVars, excerptVars, editorVars>>
    \/ \E s \in Slots, tf \in BOOLEAN :
           CreateDone(s, tf) /\ UNCHANGED <<clientVars, excerptVars, editorVars>>
    \/ \E s \in Slots, qf \in BOOLEAN :
           QueryDone(s, qf) /\ UNCHANGED <<clientVars, excerptVars, editorVars>>
    \/ PoolError /\ UNCHANGED <<clientVars, excerptVars, procVars, editorVars>>

SpecProc == Init /\ [][ProcNext]_vars

(***************************************************************************)
(* The client against the store: both servers up, the table created.       *)
(***************************************************************************)
ClientInit ==
    /\ posts = {}
    /\ clock = 0
    /\ tableExists = TRUE
    /\ pool = Undefined
    /\ tableReady = FALSE
    /\ adminSecret = Secret
    /\ databaseUrl = TRUE
    /\ express = "listening"
    /\ last = NoRequest
    /\ ClientIdle
    /\ ExcerptIdle
    /\ ProcIdle
    /\ EditorIdle

ClientNext ==
    \/ \E op \in Ops, entry \in Entries :
         \E arg \in (IF op = "save" THEN ClientPosts ELSE Ids) :
           Begin(op, arg, entry) /\ UNCHANGED <<excerptVars, procVars, editorVars>>
    \/ \E op \in Ops, tf \in BOOLEAN, qf \in BOOLEAN :
           Handler(call[op].req, tf, qf) /\ Answered(op) /\ UNCHANGED <<excerptVars, procVars, editorVars>>
    \/ \E op \in Ops, qf \in BOOLEAN :
           ExpressRoute(call[op].req, qf) /\ Answered(op) /\ UNCHANGED <<excerptVars, procVars, editorVars>>
    \/ \E op \in Ops : FetchFails(op) /\ UNCHANGED <<excerptVars, procVars, editorVars>>
    \/ \E op \in Ops : End(op) /\ UNCHANGED <<excerptVars, procVars, editorVars>>

SpecClient == ClientInit /\ [][ClientNext]_vars

(***************************************************************************)
(* blog.js: generateExcerpt.  Markup and text are sequences whose elements *)
(* are characters or whole tags.                                           *)
(***************************************************************************)
EXCERPT_LEN == 180

Tags == {"<p>", "</p>"}

IsSpace(c) == c = " "

Fill(n, c) == [i \in 1..n |-> c]

\* div.innerHTML = html; div.textContent: the text without the tags.
TextContent(h) == SelectSeq(h, LAMBDA c : c \notin Tags)

\* String.prototype.substring(0, n)
Substring0(s, n) == SubSeq(s, 1, IF Len(s) < n THEN Len(s) ELSE n)

\* String.prototype.trim
Trim(s) ==
    LET keep == {i \in 1..Len(s) : ~IsSpace(s[i])}
    IN IF keep = {} THEN <<>>
       ELSE SubSeq(s, CHOOSE i \in keep : \A j \in keep : i <= j,
                      CHOOSE i \in keep : \A j \in keep : i >= j)

Ellipsis == <<".", ".", ".">>

\* generateExcerpt with the marker test off by one.
generateExcerpt_AtLeast(h) ==
    LET text == TextContent(h)
    IN Trim(Substring0(text, EXCERPT_LEN))
         \o (IF Len(text) >= EXCERPT_LEN THEN Ellipsis ELSE <<>>)

\* generateExcerpt: text.substring(0, 180).trim() + (text.length > 180 ? '...' : '')
generateExcerpt(h) ==
    LET text == TextContent(h)
    IN Trim(Substring0(text, EXCERPT_LEN))
         \o (IF Len(text) > EXCERPT_LEN THEN Ellipsis ELSE <<>>)

\* The markup inputs: whitespace, a run of letters, whitespace, a second run
\* of letters, whitespace, bare or wrapped in a paragraph; the first run is
\* short or about EXCERPT_LEN long.
Markups ==
    {(IF tagged THEN <<"<p>">> ELSE <<>>)
        \o Fill(l, " ") \o Fill(n, "a") \o Fill(g, " ") \o Fill(m, "b") \o Fill(t, " ")
        \o (IF tagged THEN <<"</p>">> ELSE <<>>) :
     l \in 0..MaxPad, g \in 0..MaxPad, m \in 0..MaxPad, t \in 0..MaxPad,
     n \in (0..1) \cup ((EXCERPT_LEN - 4)..(EXCERPT_LEN + 1)),
     tagged \in BOOLEAN}

\* The call generateExcerpt(html) returns.
GenerateExcerpt ==
    /\ ~excerptDone
    /\ excerptOut' = generateExcerpt(html)
    /\ excerptDone' = TRUE
    /\ UNCHANGED html

\* generateExcerpt is called with any of the markup inputs.
ExcerptInit ==
    /\ StoreInit /\ ClientIdle /\ ProcIdle /\ EditorIdle
    /\ html \in Markups
    /\ excerptOut = <<>>
    /\ excerptDone = FALSE

ExcerptNext == GenerateExcerpt /\ UNCHANGED <<storeVars, clientVars, procVars, editorVars>>

SpecExcerpt == ExcerptInit /\ [][ExcerptNext]_vars

(***************************************************************************)
(* blog.js: the tags of the editor (initBlogEditor).  A tag and the text   *)
(* of the tags input are sequences of characters; the editor saves through *)
(* saveBlog to the serverless handler, which other holders of the admin    *)
(* key also reach directly.                                                *)
(***************************************************************************)
Letters == {"x", "y"}

\* What the tags input holds when Enter or comma is pressed: nothing, a
\* blank, a comma, or a letter alone, after a blank or before a comma.
TagTexts ==
    {<<>>, <<" ">>, <<",">>}
    \cup {<<c>> : c \in Letters}
    \cup {<<" ", c>> : c \in Letters}
    \cup {<<c, ",">> : c \in Letters}

\* .replace(/,/g, '')
RemoveCommas(t) == SelectSeq(t, LAMBDA c : c # ",")

\* tagsInput.value.trim().replace(/,/g, '')
TagOf(text) == RemoveCommas(Trim(text))

\* currentTags.includes(tag)
Includes(tags, tag) == \E i \in 1..Len(tags) : tags[i] = tag

\* The keydown handler on Enter or comma: the tag is pushed when it is not
\* empty and not yet included.
Pushed(tags, text) ==
    IF TagOf(text) # <<>> /\ ~Includes(tags, TagOf(text))
    THEN Append(tags, TagOf(text))
    ELSE tags

\* currentTags.splice(i, 1), counting from 1.
Splice(tags, i) == SubSeq(tags, 1, i - 1) \o SubSeq(tags, i + 1, Len(tags))

\* generateId(): an id no stored post has.
NewId == "p2"

\* The post the save handler builds from a title and a content that pass
\* its two checks.
EditorPost ==
    [id |-> IF Truthy(editId) THEN editId ELSE NewId,
     title |-> "T", content |-> "c1", excerpt |-> "e1",
     has_tags |-> TRUE, tags |-> currentTags]

\* Upserts of p1 sent to the store by a holder of the key other than the
\* editor: the tags array is whatever the sender put in the body.
DirectRequests ==
    [method : {"POST"}, key : {Secret}, id : {Undefined},
     body : [id : {"p1"}, title : {"T"}, content : {"c2"}, excerpt : {Undefined},
             has_tags : {TRUE},
             tags : {<< <<"y">> >>, << <<"x">>, <<"x">> >>}]]

\* The editor page is opened for a new post.
EditorNew ==
    /\ Idle
    /\ call["save"].stage \in {"idle", "done"}
    /\ currentTags' = <<>>
    /\ editId' = Null
    /\ UNCHANGED <<storeVars, clientVars>>

\* The editor page is opened with ?id=: getBlog fetches the post from the
\* store and currentTags becomes its tags, or stays empty without a post.
EditorLoad(id, tf, qf) ==
    /\ call["save"].stage \in {"idle", "done"}
    /\ Handler([method |-> "GET", key |-> Undefined, id |-> id, body |-> NoBody], tf, qf)
    /\ editId' = id
    /\ currentTags' = IF Ok(last'.status) THEN last'.payload.tags ELSE <<>>
    /\ UNCHANGED clientVars

\* keydown Enter or comma with text in the tags input.
AddTag(text) ==
    /\ currentTags' = Pushed(currentTags, text)
    /\ UNCHANGED <<editId, storeVars, clientVars>>

\* keydown Backspace in the empty tags input.
Backspace ==
    /\ Len(currentTags) > 0
    /\ currentTags' = SubSeq(currentTags, 1, Len(currentTags) - 1)
    /\ UNCHANGED <<editId, storeVars, clientVars>>

\* A click on the remove mark of pill i.
RemovePill(i) ==
    /\ i \in 1..Len(currentTags)
    /\ currentTags' = Splice(currentTags, i)
    /\ UNCHANGED <<editId, storeVars, clientVars>>

\* A click on Save: saveBlog(post) up to its fetch.
EditorSave(entry) ==
    /\ Begin("save", EditorPost, entry)
    /\ UNCHANGED editorVars

\* The editor of a session that holds the key, on a store whose table exists.
EditorInit ==
    /\ posts = {}
    /\ clock = 0
    /\ tableExists = TRUE
    /\ pool = Undefined
    /\ tableReady = FALSE
    /\ adminSecret = Secret
    /\ databaseUrl = TRUE
    /\ express = "listening"
    /\ last = NoRequest
    /\ sessionKey = Secret
    /\ call = [op \in Ops |-> NoCall]
    /\ ExcerptIdle
    /\ ProcIdle
    /\ EditorIdle

EditorNext ==
    \/ EditorNew /\ UNCHANGED <<excerptVars, procVars>>
    \/ \E id \in Ids, tf \in BOOLEAN, qf \in BOOLEAN :
           EditorLoad(id, tf, qf) /\ UNCHANGED <<excerptVars, procVars>>
    \/ \E text \in TagTexts : AddTag(text) /\ UNCHANGED <<excerptVars, procVars>>
    \/ Backspace /\ UNCHANGED <<excerptVars, procVars>>
    \/ \E i \in 1..Len(currentTags) : RemovePill(i) /\ UNCHANGED <<excerptVars, procVars>>
    \/ \E entry \in Entries : EditorSave(entry) /\ UNCHANGED <<excerptVars, procVars>>
    \/ \E tf \in BOOLEAN, qf \in BOOLEAN :
           /\ Handler(call["save"].req, tf, qf) /\ Answered("save")
           /\ UNCHANGED <<excerptVars, procVars, editorVars>>
    \/ FetchFails("save") /\ UNCHANGED <<excerptVars, procVars, editorVars>>
    \/ End("save") /\ UNCHANGED <<excerptVars, procVars, editorVars>>
    \/ \E req \in DirectRequests, tf \in BOOLEAN, qf \in BOOLEAN :
           Handler(req, tf, qf) /\ UNCHANGED <<clientVars, excerptVars, procVars, editorVars>>
    \/ Deliver /\ UNCHANGED <<clientVars, excerptVars, procVars, editorVars>>

SpecEditor == EditorInit /\ [][EditorNext]_vars

(***************************************************************************)
(* Properties of generateExcerpt.                                          *)
(***************************************************************************)
\* t is s without its leading and trailing whitespace: a piece of s that
\* neither starts nor ends with whitespace and has only whitespace around it.
IsTrimOf(t, s) ==
    /\ Len(t) <= Len(s)
    /\ t # <<>> => ~IsSpace(t[1]) /\ ~IsSpace(t[Len(t)])
    /\ \E i \in 1..(Len(s) - Len(t) + 1) :
          /\ t = SubSeq(s, i, i + Len(t) - 1)
          /\ \A k \in 1..Len(s) : (k < i \/ k > i + Len(t) - 1) => IsSpace(s[k])

\* The last n elements of s removed.
DropLast(s, n) == SubSeq(s, 1, Len(s) - n)

EndsWithEllipsis(s) == Len(s) >= 3 /\ SubSeq(s, Len(s) - 2, Len(s)) = Ellipsis

\* C10 as stated: for a plain text longer than 180 characters the excerpt
\* is exactly the first 180 characters followed by '...'; for a plain text
\* of 180 characters or fewer it is the trimmed plain text with no marker.
C10_Original ==
    LET text == TextContent(html)
    IN excerptDone =>
       IF Len(text) > EXCERPT_LEN
       THEN excerptOut = SubSeq(text, 1, EXCERPT_LEN) \o Ellipsis
       ELSE IsTrimOf(excerptOut, text)

\* C10 as amended: for a plain text longer than 180 characters the excerpt
\* is the first 180 characters without their leading and trailing
\* whitespace, followed by '...' (exactly 180 characters and the marker when
\* neither the first nor the 180th character is whitespace); for a plain
\* text of 180 characters or fewer it is the trimmed plain text, no marker.
C10_ExcerptTrimmedThenMarked ==
    LET text == TextContent(html)
    IN excerptDone =>
       IF Len(text) > EXCERPT_LEN
       THEN /\ EndsWithEllipsis(excerptOut)
            /\ IsTrimOf(DropLast(excerptOut, 3), SubSeq(text, 1, EXCERPT_LEN))
            /\ (~IsSpace(text[1]) /\ ~IsSpace(text[EXCERPT_LEN]))
                  => excerptOut = SubSeq(text, 1, EXCERPT_LEN) \o Ellipsis
       ELSE IsTrimOf(excerptOut, text)

\* C10 witness: a text longer than 180 characters whose 180th character is
\* whitespace, so that the excerpt is shorter than 180 characters plus the
\* marker.
C10_Witness ==
    LET text == TextContent(html)
    IN /\ excerptDone
       /\ Len(text) > EXCERPT_LEN
       /\ IsSpace(text[EXCERPT_LEN])
       /\ html # text
       /\ EndsWithEllipsis(excerptOut)
       /\ Len(excerptOut) < EXCERPT_LEN + 3

(***************************************************************************)
(* Properties of the store.                                                *)
(***************************************************************************)
\* This step handles a request: last' is the request and its response.
Handles == Idle /\ ~Idle'

\* The request carries the configured secret.
CorrectKey(req) == Truthy(adminSecret) /\ req.key = adminSecret

\* The header is absent or differs from the configured secret.
WrongKey(req) == Truthy(adminSecret) /\ req.key # adminSecret

SummaryFields == {"id", "title", "excerpt", "tags", "created_at", "updated_at"}

\* C1: a POST whose X-Admin-Key header is absent or differs from the
\* configured secret, whatever its body and whatever the table holds, leaves
\* the table exactly as it was and is answered 403, on both servers (a
\* request on which a storage operation failed is answered 500 instead).
C1_UnauthorizedPostForbidden ==
    [][(Handles /\ last'.req.method = "POST" /\ WrongKey(last'.req))
        => /\ posts' = posts
           /\ ~last'.fault => last'.status = 403
           /\ last'.status \in {403, 500}]_vars

\* C1 witness: a complete body aimed at an existing row, without the secret,
\* was answered 403.
C1_Witness ==
    /\ last.req.method = "POST" /\ last.req.key # adminSecret
    /\ ~MissingField(last.req.body)
    /\ last.req.body.id \in RowIds(posts)
    /\ last.status = 403

\* C2: a successful upsert leaves exactly one row with its id; that row has
\* the content of this upsert; if the id had a row, its created_at is
\* unchanged and its updated_at is strictly greater than before; if it had
\* none, created_at equals updated_at.
C2_UpsertIdempotentOnId ==
    [][(Handles /\ last'.req.method = "POST" /\ last'.status = 200)
        => LET b == last'.req.body
               now == {r \in posts' : r.id = b.id}
               was == {r \in posts : r.id = b.id}
           IN /\ Cardinality(now) = 1
              /\ \A n \in now :
                    /\ n.content = b.content
                    /\ last'.payload = n
                    /\ was = {} => n.created_at = n.updated_at
                    /\ \A w \in was : /\ n.created_at = w.created_at
                                      /\ n.updated_at > w.updated_at]_vars

\* C2 witness: a re-upsert answered with a row whose updated_at has moved
\* past its created_at and whose content is the new one.
C2_Witness ==
    /\ last.req.method = "POST" /\ last.status = 200
    /\ last.payload.updated_at > last.payload.created_at
    /\ last.payload.content = "c2"
    /\ last.payload \in posts

\* C3: an upsert carrying the correct secret whose id, title or content is
\* missing or empty is answered 400 (unless a storage operation failed) and
\* leaves the table unchanged; and every persisted row has a non-empty id,
\* title and content.
C3_MissingFieldBadRequest ==
    /\ [][(Handles /\ last'.req.method = "POST" /\ CorrectKey(last'.req)
              /\ Lacking(last'.req.body) # {})
            => /\ posts' = posts
               /\ ~last'.fault => last'.status = 400]_vars
    /\ [](\A r \in posts : Truthy(r.id) /\ Truthy(r.title) /\ Truthy(r.content))

\* C3 witness: a body with an empty content, sent with the secret while the
\* table holds a row, was answered 400.
C3_Witness ==
    /\ last.req.method = "POST" /\ last.req.key = adminSecret
    /\ last.req.body.content = "" /\ last.req.body.id \in RowIds(posts)
    /\ last.status = 400

\* C4: a delete carrying the correct secret for an id no row has is answered
\* 404 (unless the query failed) and leaves the table unchanged.
C4_DeleteMissingNotFound ==
    [][(Handles /\ last'.req.method = "DELETE" /\ CorrectKey(last'.req)
           /\ Truthy(last'.req.id) /\ last'.req.id \notin RowIds(posts))
        => /\ posts' = posts
           /\ ~last'.fault => last'.status = 404]_vars

\* C4 witness: a delete of an absent id, answered 404 while another row
\* exists.
C4_Witness ==
    /\ last.req.method = "DELETE" /\ last.req.key = adminSecret
    /\ last.status = 404
    /\ posts # {}

\* C5: a delete whose header is absent or differs from the configured
\* secret is answered 403, never 200 or 404, whether or not the id has a
\* row, and leaves the table unchanged.
C5_UnauthorizedDeleteForbidden ==
    [][(Handles /\ last'.req.method = "DELETE" /\ WrongKey(last'.req)
           /\ Truthy(last'.req.id))
        => /\ posts' = posts
           /\ ~last'.fault => last'.status = 403
           /\ last'.status \in {403, 500}]_vars

\* C5 witness: a delete without the header, aimed at an existing row, was
\* answered 403.
C5_Witness ==
    /\ last.req.method = "DELETE" /\ last.req.key = Undefined
    /\ last.req.id \in RowIds(posts)
    /\ last.status = 403

\* C6: a delete with the correct secret for an existing id is answered 200
\* with {deleted: true, id} and removes that row and no other (unless the
\* query failed); while an id has no row, get answers 404 for it and list
\* omits it, and only a successful upsert of that id gives it a row again,
\* whose created_at is the time of that upsert, later than every timestamp
\* stored before.
C6_DeletePermanent ==
    /\ [][(Handles /\ last'.req.method = "DELETE" /\ CorrectKey(last'.req)
              /\ last'.req.id \in RowIds(posts) /\ ~last'.fault)
            => /\ last'.status = 200
               /\ last'.payload = [deleted |-> TRUE, id |-> last'.req.id]
               /\ posts' = {r \in posts : r.id # last'.req.id}]_vars
    /\ [][(Handles /\ last'.req.method = "GET" /\ ~last'.fault)
            => IF Truthy(last'.req.id)
               THEN last'.req.id \notin RowIds(posts) => last'.status = 404
               ELSE {last'.payload.rows[i].id : i \in DOMAIN last'.payload.rows}
                        = RowIds(posts)]_vars
    /\ [][\A id \in RowIds(posts') \ RowIds(posts) :
              /\ Handles /\ last'.req.method = "POST" /\ last'.status = 200
              /\ last'.req.body.id = id
              /\ \A n \in posts' : n.id = id =>
                    /\ n.created_at = clock /\ n.updated_at = clock
                    /\ \A r \in posts : r.created_at < n.created_at]_vars
    /\ [][clock' >= clock]_vars
    /\ [](\A r \in posts : r.created_at <= r.updated_at /\ r.updated_at < clock)

\* C6 witness: a delete was answered 200 and the other row is still there.
C6_Witness ==
    /\ last.req.method = "DELETE" /\ last.status = 200
    /\ last.req.id \notin RowIds(posts)
    /\ posts # {}

\* C7: every record of a list response has exactly the fields id, title,
\* excerpt, tags, created_at, updated_at, one record per row; a successful
\* get returns the row of the table with that id, content included; and a
\* row's content changes only by a successful upsert of its id, to the
\* content of that upsert.
C7_ListOmitsContentGetHasIt ==
    /\ []((last.req.method = "GET" /\ last.status = 200) =>
            IF Truthy(last.req.id)
            THEN /\ last.payload \in posts
                 /\ last.payload.id = last.req.id
                 /\ DOMAIN last.payload = SummaryFields \cup {"content"}
            ELSE /\ Len(last.payload.rows) = Cardinality(posts)
                 /\ \A i \in DOMAIN last.payload.rows :
                        /\ DOMAIN last.payload.rows[i] = SummaryFields
                        /\ \E r \in posts : Summary(r) = last.payload.rows[i])
    /\ [][\A n \in posts' : \A r \in posts :
              (n.id = r.id /\ n.content # r.content) =>
                  /\ Handles /\ last'.req.method = "POST" /\ last'.status = 200
                  /\ last'.req.body.id = n.id
                  /\ n.content = last'.req.body.content]_vars

\* C7 witness: a list response over two rows.
C7_Witness ==
    /\ last.req.method = "GET" /\ last.req.id = Undefined /\ last.status = 200
    /\ Len(last.payload.rows) = 2

(***************************************************************************)
(* Properties of the client.                                               *)
(***************************************************************************)
\* This step is the start of saveBlog / deleteBlog: its key handling, up to
\* the fetch or the early return.
Begins(op) == call[op].stage \in {"idle", "done"} /\ call'[op] # call[op]

\* This step is the rest of saveBlog / deleteBlog after the response.
Ends(op) == call[op].stage = "answered" /\ call'[op].stage = "done"

\* C8: saveBlog and deleteBlog with no secret in the session store prompt
\* the user; if the user cancels or enters nothing, the call returns false
\* with the warning, no request is sent and nothing reaches the store, and
\* the session store is as it was, without a secret.
C8_DeclinedPromptAborts ==
    [][\A op \in Ops :
          (Begins(op) /\ ~Truthy(sessionKey)) =>
             /\ call'[op].prompted
             /\ ~Truthy(call'[op].entered) =>
                   /\ call'[op].stage = "done"
                   /\ call'[op].result = FALSE
                   /\ call'[op].toast = Warning(op, "nokey")
                   /\ call'[op].req = NoReq
                   /\ sessionKey' = sessionKey
                   /\ UNCHANGED storeVars]_vars

\* C8 witness: a call prompted, the user entered nothing, and the call ended
\* with the warning while the other call had a request answered before.
C8_Witness ==
    \E op \in Ops :
        /\ call[op].stage = "done" /\ call[op].prompted
        /\ call[op].entered = ""
        /\ call[op].toast = Warning(op, "nokey")
        /\ sessionKey = Null
        /\ posts # {}

\* C9: a 403 answer makes the client remove its held secret and return
\* false; any other end of a call (another status, or a failed fetch) leaves
\* the held secret as it is; the secret changes only by a prompt answered
\* when none is held or by a 403; a call made while a secret is held sends
\* that secret without prompting, and a call made while none is held prompts
\* before it sends anything.
C9_ForbiddenDiscardsSecret ==
    /\ [][\A op \in Ops :
             Ends(op) =>
                IF call[op].status = 403
                THEN sessionKey' = Null /\ call'[op].result = FALSE
                ELSE sessionKey' = sessionKey /\ call'[op].result = Ok(call[op].status)]_vars
    /\ [][sessionKey' # sessionKey =>
             \/ \E op \in Ops : Ends(op) /\ call[op].status = 403 /\ sessionKey' = Null
             \/ /\ ~Truthy(sessionKey)
                /\ \E op \in Ops : /\ Begins(op) /\ call'[op].prompted
                                   /\ call'[op].entered = sessionKey']_vars
    /\ [][\A op \in Ops :
             Begins(op) =>
                /\ call'[op].prompted = ~Truthy(sessionKey)
                /\ call'[op].stage = "fetching" =>
                      /\ Truthy(call'[op].req.key)
                      /\ call'[op].req.key = sessionKey'
                      /\ Truthy(sessionKey) => call'[op].req.key = sessionKey]_vars
    /\ [](\A op \in Ops : call[op].stage = "answered" =>
             /\ last.req = call[op].req
             /\ last.status = call[op].status)

\* C9 witness: a call that reused the held secret without prompting was
\* answered 403, and the secret is gone.
C9_Witness ==
    \E op \in Ops :
        /\ call[op].stage = "done" /\ ~call[op].prompted
        /\ call[op].status = 403
        /\ call[op].toast = Warning(op, "forbidden")
        /\ sessionKey = Null

(***************************************************************************)
(* Properties of the store under storage faults.                           *)
(***************************************************************************)
\* C11: every storage-layer fault (a failed query, an unreachable database,
\* an error on an idle pooled connection) gives the affected request a 500
\* and never ends the process: a server that answers requests keeps
\* answering them.
C11_FaultsNeverCrash ==
    /\ [][(Handles /\ last'.fault) => last'.status = 500]_vars
    /\ [][express = "listening" => express' = "listening"]_vars

(***************************************************************************)
(* Properties of overlapping invocations of the serverless handler.        *)
(***************************************************************************)
\* The invocation of slot s has answered 200 to an upsert.
Upserted(s) ==
    /\ inflight[s].pc = "done"
    /\ inflight[s].req.method = "POST"
    /\ inflight[s].status = 200

\* The invocations of slots s and t were in flight at the same time.
Overlap(s, t) == t \in inflight[s].with \/ s \in inflight[t].with

\* Slots s and t hold two overlapping upserts of one id, t's statement
\* having run first and s's last.
RacedUpserts(s, t) ==
    /\ s # t
    /\ Upserted(s) /\ Upserted(t)
    /\ Overlap(s, t)
    /\ inflight[s].req.body.id = inflight[t].req.body.id
    /\ inflight[t].payload.updated_at < inflight[s].payload.updated_at

\* C12: after two overlapping authorized upserts of one id, in every
\* interleaving the table holds exactly one row of that id, its title,
\* content, excerpt and tags are all those of the upsert whose statement ran
\* last, and its created_at is the one the first of the two saw or set when
\* it inserted the row.
C12_LastCommitWins ==
    \A s \in Slots, t \in Slots :
        RacedUpserts(s, t) =>
            LET b == inflight[s].req.body
                R == {r \in posts : r.id = b.id}
            IN /\ Cardinality(R) = 1
               /\ \A r \in R :
                    /\ r.title = b.title
                    /\ r.content = b.content
                    /\ r.excerpt = ExcerptParam(b)
                    /\ r.tags = TagsParam(b)
                    /\ r.created_at = inflight[t].payload.created_at
                    /\ r.created_at < r.updated_at
                    /\ r = inflight[s].payload

\* Two overlapping upserts with different fields have both run, the first
\* of them inserting the row.
C12_Witness ==
    \E s \in Slots, t \in Slots :
        /\ RacedUpserts(s, t)
        /\ inflight[s].req.body # inflight[t].req.body
        /\ inflight[t].payload.created_at = inflight[t].payload.updated_at
        /\ inflight[s].payload \in posts

\* C13 as stated: over any interleaving the CREATE TABLE IF NOT EXISTS query
\* is issued at most once in the life of the process, tableReady is set only
\* once the table exists, and no route's query is awaited before it exists.
C13_Original ==
    /\ creates <= 1
    /\ tableReady => tableExists
    /\ \A s \in Slots : inflight[s].pc = "query" => tableExists

\* C13: the CREATE TABLE IF NOT EXISTS query is issued only by invocations
\* that start while tableReady is false and by none once it is true;
\* tableReady becomes true only in the step in which an awaited CREATE TABLE
\* query succeeded; and no list, get, upsert or delete query is issued
\* before the table exists.
C13_CreateUntilReady ==
    [][/\ creates' > creates => ~tableReady
       /\ (tableReady' /\ ~tableReady) =>
              /\ tableExists'
              /\ \E s \in Slots : inflight[s].pc = "create" /\ inflight'[s].pc # "create"
       /\ \A s \in Slots : inflight'[s].pc = "query" => tableExists']_vars

\* The check has been issued twice, the table is ready and a route's query
\* is awaited.
C13_Witness ==
    /\ creates = 2
    /\ tableReady
    /\ \E s \in Slots : inflight[s].pc = "query"

(***************************************************************************)
(* Properties of the connection pools.                                     *)
(***************************************************************************)
\* C14: after a pool-level fault the server drops the pool it held and stays
\* up, so that the next request needing storage creates a fresh pool: the
\* serverless handler's module variable pool is cleared by the fault, a pool
\* is created only when none is held, and the Express server keeps
\* listening after a fault of its pool.
C14_FaultedPoolReplaced ==
    [][/\ PoolError => ~Truthy(pool')
       /\ (Truthy(pool') /\ pool' # pool) => ~Truthy(pool)
       /\ ExpressPoolError => express' = "listening"]_vars

(***************************************************************************)
(* Properties of the editor's tags.                                        *)
(***************************************************************************)
NoDuplicates(tags) ==
    \A i \in 1..Len(tags), j \in 1..Len(tags) : tags[i] = tags[j] => i = j

\* C15: after loading a post and any sequence of add-tag, Backspace and
\* remove-pill events, currentTags holds no value twice, and so the tags
\* the save action sends to the store hold no value twice.
C15_TagsDuplicateFree ==
    /\ NoDuplicates(currentTags)
    /\ call["save"].stage = "fetching" => NoDuplicates(call["save"].req.body.tags)

(***************************************************************************)
(* Properties of the store without a configured secret.                    *)
(***************************************************************************)
\* C16: while ADMIN_SECRET is unset or empty no step changes the table, and
\* every POST and every DELETE of an id, whatever its X-Admin-Key header
\* (absent and empty included), is rejected: 403 by the serverless handler
\* (500 when a storage fault struck the request first), 500 by the Express
\* server.
C16_NoSecretNoMutation ==
    [][~Truthy(adminSecret) =>
         /\ posts' = posts
         /\ (Handles /\ (\/ last'.req.method = "POST"
                         \/ last'.req.method = "DELETE" /\ Truthy(last'.req.id))) =>
                IF last'.server = "express"
                THEN last'.status = 500 /\ ~last'.fault
                ELSE /\ ~last'.fault => last'.status = 403
                     /\ last'.status \in {403, 500}]_vars

\* With ADMIN_SECRET unset, a delete of the stored row that sends no header
\* was answered 403 by the serverless handler and the row is still there.
C16_Witness ==
    /\ adminSecret = Undefined
    /\ last.server = "serverless"
    /\ last.req.method = "DELETE" /\ last.req.key = Undefined
    /\ last.req.id \in RowIds(posts)
    /\ last.status = 403

====
